---- MODULE Spec2Model ----
(***************************************************************************)
(* Model of mortgageRefinanceTippingPointCalcutaor.py: the amortization    *)
(* helpers (calculate_pmt, get_loan_status), the sale-horizon resolution   *)
(* (calculate_total_payments_until_sale) and run_analysis, whose body is   *)
(* followed statement by statement: horizon check, benchmark, descending   *)
(* rate scan, fallback, comparison table, print.                           *)
(*                                                                         *)
(* Number representation.  The program computes in binary floating point;  *)
(* the model computes in fixed point:                                      *)
(*   - a rate is an integer number of RateScale-ths of a percentage point  *)
(*     (a twentieth of the 0.001 scan step), so rates off the 0.001 grid   *)
(*     exist and rounding to 3 decimals is not the identity.  A rate one   *)
(*     unit off a multiple of Sub stands for a double a few ulps off the   *)
(*     decimal value: the rates of numpy.arange drift from the 0.001 grid  *)
(*     by about 1e-13 (ArangeFloat), which the comparisons of the program  *)
(*     see and its amounts do not.  Interest is computed on the rate to    *)
(*     the nearest tick of Sub units (0.0002 percentage points);           *)
(*   - money is an integer number of MoneyScale-ths of a dollar;           *)
(*   - (1 + r)^n is an integer number of PowScale-ths.                     *)
(* Every quotient is rounded down.                                         *)
(***************************************************************************)
EXTENDS Integers, Sequences, FiniteSets, TLC

\* ----------------------------------------------------------- the state

VARIABLES
    args,                       \* the parsed arguments of run_analysis
    pc,                         \* where run_analysis is
    out,                        \* what has been printed, in order
    months_until_sale,
    first_pmt_date_str,
    remaining_principal,
    pmt_orig,
    closing_costs,
    cost_refi_loan_amt,
    refi_payments_until_sale,
    total_cost_orig_at_sale,
    tipping_rate_sale,
    tipping_rate_lifetime,
    scanned,                    \* how many rates of search_rates the loop has taken
    r_new,
    pmt_refi,
    total_payments_refi_lifetime,
    total_cost_refi_at_sale,
    table_data,
    status_calls,               \* history: <<total_months, payments_made>> of every get_loan_status call
    hits_sale,                  \* history: the scanned rates at which the test of line 120 held
    hits_lifetime               \* history: the scanned rates at which the test of line 110 held

benchmark == <<months_until_sale, first_pmt_date_str, remaining_principal,
               pmt_orig, closing_costs, cost_refi_loan_amt,
               refi_payments_until_sale, total_cost_orig_at_sale>>
search == <<tipping_rate_sale, tipping_rate_lifetime, scanned, r_new, pmt_refi,
            total_payments_refi_lifetime, total_cost_refi_at_sale,
            hits_sale, hits_lifetime>>
vars == <<args, pc, out, benchmark, search, table_data, status_calls>>

\* ---------------------------------------------------------------- scales

TickScale == 5 * 1000          \* ticks per percentage point
Sub == 2 * 2                   \* rate units per tick
RateScale == Sub * TickScale   \* rate units per percentage point
MoneyScale == 10 * 100         \* money units per dollar
PowScale == 10000 * 10000      \* units of (1 + r)^n
Split == 100 * 100             \* limb used to multiply without overflow
MonthlyDen == 12 * 100 * TickScale   \* annual_rate / 100 / 12, in ticks

\* `None` of the source: a tipping rate not found yet, a value not computed.
None == -1

\* ------------------------------------------------------------ arithmetic

\* floor(x * t / MonthlyDen) for t the rate annual_rate >= 0 to the nearest
\* tick: the product of an amount by the monthly rate
\* r = annual_rate / 100 / 12 (x * r in the source).  x is split in two limbs
\* so that no intermediate exceeds 31 bits.
MulRate(x, annual_rate) ==
    LET t == (annual_rate + Sub \div 2) \div Sub
        xh == x \div Split
        xl == x % Split
    IN  (xh * t + (xl * t) \div Split) \div (MonthlyDen \div Split)

\* F(e), with e evaluated first: a bound variable holds a value, where a LET
\* definition or an operator argument holds an expression that is evaluated
\* where it is used, however deep.  The recursions below pass their intermediate
\* results this way, which keeps the nesting of pending evaluations shallow.
Then(e, F(_)) == CHOOSE r \in { F(v) : v \in {e} } : TRUE

\* floor(a * b / c) for a, b >= 0, 3 * a < 2^31 and 0 < c < 2^29, by long
\* multiplication in base 4 on <<quotient, remainder>>:
\* a * b = 4 * (a * (b div 4)) + a * (b mod 4).
RECURSIVE MulDivQR(_, _, _)
MulDivQR(a, b, c) ==
    IF b = 0 THEN <<0, 0>>
    ELSE LET Shift(h) ==
                 LET hi == 4 * h[2]
                     lo == (b % 4) * a
                     r == (hi % c) + (lo % c)
                 IN  IF r >= c THEN <<4 * h[1] + hi \div c + lo \div c + 1, r - c>>
                               ELSE <<4 * h[1] + hi \div c + lo \div c, r>>
         IN  Then(MulDivQR(a, b \div 4, c), Shift)

MulDiv(a, b, c) == MulDivQR(a, b, c)[1]

\* floor(a * b / PowScale), for two PowScale-ths, by limbs.
MulPow(a, b) ==
    LET ah == a \div Split
        al == a % Split
        bh == b \div Split
        bl == b % Split
    IN  ah * bh + (ah * bl + al * bh + (al * bl) \div Split) \div Split

\* x ** n for n >= 0, by squaring.
RECURSIVE Power(_, _)
Power(x, n) ==
    IF n <= 0 THEN PowScale
    ELSE IF n % 2 = 1 THEN MulPow(x, Power(x, n - 1))
    ELSE LET Square(h) == MulPow(h, h) IN Then(Power(x, n \div 2), Square)

\* (1 + r) ** months in PowScale-ths, r = annual_rate / 100 / 12.
PowOnePlusR(annual_rate, months) ==
    Power(PowScale + MulRate(PowScale, annual_rate), months)

\* ---------------------------------------------------- utility functions

\* calculate_pmt: the fixed monthly payment,
\* principal * (r * (1 + r)**months) / ((1 + r)**months - 1), with
\* principal * r taken first.
calculate_pmt(principal, annual_rate, months) ==
    IF annual_rate <= 0 THEN principal \div months
    ELSE LET Payment(pw) ==
                 MulDiv(pw, MulRate(principal, annual_rate), pw - PowScale)
         IN  Then(PowOnePlusR(annual_rate, months), Payment)

\* The loop of get_loan_status: `n` times
\*     interest = balance * r; principal_pay = pmt - interest;
\*     balance -= principal_pay
\* The n turns are taken as two halves, one after the other: the steps and
\* their order are those of the loop, the nesting is logarithmic.
RECURSIVE PayDown(_, _, _, _)
PayDown(balance, annual_rate, pmt, n) ==
    IF n <= 0 THEN balance
    ELSE IF n = 1
         THEN LET interest == MulRate(balance, annual_rate)
                  principal_pay == pmt - interest
              IN  balance - principal_pay
    ELSE LET Rest(half) == PayDown(half, annual_rate, pmt, n - n \div 2)
         IN  Then(PayDown(balance, annual_rate, pmt, n \div 2), Rest)

\* get_loan_status: <<balance, pmt, remaining_interest>> after payments_made
\* payments.  range(1, payments_made + 1) is empty for payments_made <= 0.
get_loan_status(principal, annual_rate, total_months, payments_made) ==
    LET Status(pmt) ==
            LET balance == PayDown(principal, annual_rate, pmt, payments_made)
                remaining_interest ==
                    (pmt * (total_months - payments_made)) - balance
            IN  <<balance, pmt, remaining_interest>>
    IN  Then(calculate_pmt(principal, annual_rate, total_months), Status)

\* The fixed reference month of calculate_total_payments_until_sale.
CURRENT_YEAR == 2025
CURRENT_MONTH == 11

\* datetime(year, month, 1) - relativedelta(months = n): the month is moved
\* n months back (forward for n < 0), the year carrying; <<year, month>>.
MinusMonths(year, month, n) ==
    LET idx == 12 * year + (month - 1) - n
    IN  <<idx \div 12, (idx % 12) + 1>>

\* The horizon with `total_months <= payments_made` as the error test.
total_payments_until_sale_strict(payments_made, sell_year, sell_month) ==
    LET first_payment_date ==
            MinusMonths(CURRENT_YEAR, CURRENT_MONTH, payments_made - 1)
        total_months == 12 * (sell_year - first_payment_date[1])
                        + (sell_month - first_payment_date[2]) + 1
    IN  [ok |-> ~(total_months <= payments_made),
         total_months |-> total_months,
         first_payment |-> first_payment_date]

\* The horizon with the first payment payments_made months back, not
\* payments_made - 1.
total_payments_until_sale_shifted(payments_made, sell_year, sell_month) ==
    LET first_payment_date ==
            MinusMonths(CURRENT_YEAR, CURRENT_MONTH, payments_made)
        total_months == 12 * (sell_year - first_payment_date[1])
                        + (sell_month - first_payment_date[2]) + 1
    IN  [ok |-> ~(total_months < payments_made),
         total_months |-> total_months,
         first_payment |-> first_payment_date]

\* calculate_total_payments_until_sale: [ok |-> FALSE] where the source
\* raises ValueError, else the total and the first payment's <<year, month>>
\* (what strftime('%b %Y') prints).
calculate_total_payments_until_sale(payments_made, sell_year, sell_month) ==
    LET first_payment_date ==
            MinusMonths(CURRENT_YEAR, CURRENT_MONTH, payments_made - 1)
        total_months == 12 * (sell_year - first_payment_date[1])
                        + (sell_month - first_payment_date[2]) + 1
    IN  IF total_months < payments_made
        THEN [ok |-> FALSE, total_months |-> total_months,
              first_payment |-> first_payment_date]
        ELSE [ok |-> TRUE, total_months |-> total_months,
              first_payment |-> first_payment_date]

\* ------------------------------------------------------ the rate scan

\* The scan of run_analysis: np.arange(original_rate, 2.99, -0.001).
Floor == 59800                 \* 2.99, in rate units
Step == 20                     \* 0.001, in rate units
RefiTerm == 360                \* the refinanced loan's term, in months

\* What double precision makes of np.arange(start, 2.99, -0.001) for the
\* original rates of the model.  np.arange takes
\* ceil((2.99 - start) / -0.001) rates, the i-th being start + i * delta with
\* delta = (start + (-0.001)) - start, all in doubles:
\*   extra: 1 when the quotient, an integer in exact arithmetic, comes out
\*          just above it (1011.0000000000002 for 4.001, hence 1012 rates);
\*   drift: the side of -0.001 on which delta falls, hence the side of the
\*          0.001 grid on which the rates fall (for 4.001 below it: the
\*          rates run 4.001, 4.0, 3.9989999999999997, ...,
\*          2.9899999999996627; for 3.03 above it: ..., 2.991000000000004);
\*   exact: the number of leading rates that are still the double nearest
\*          to their decimal value.
ArangeFloat(start) ==
    CASE start = 4 * RateScale + Step ->
             [extra |-> 1, exact |-> 2, drift |-> -1]
      [] start = 3 * RateScale + 30 * Step ->
             [extra |-> 0, exact |-> 4, drift |-> 1]
      [] start = 3 * RateScale + 16 ->
             [extra |-> 0, exact |-> 3, drift |-> 1]
      [] start = 3 * RateScale ->
             [extra |-> 0, exact |-> 3, drift |-> 1]
      [] OTHER ->
             [extra |-> 0, exact |-> 0, drift |-> 0]

\* len(np.arange(start, 2.99, -0.001)) = ceil((2.99 - start) / -0.001),
\* and none when that is not positive.
ArangeLen(start) ==
    IF start <= Floor THEN 0
    ELSE (start - Floor + Step - 1) \div Step + ArangeFloat(start).extra

\* search_rates[i], from i = 0: start + i * delta.
SearchRate(start, i) ==
    start - i * Step
    + (IF i < ArangeFloat(start).exact THEN 0 ELSE ArangeFloat(start).drift)

\* total_payments_refi_lifetime = pmt_refi * 360 (lines 108 and 151); the
\* variant stops at the sale.
RefiLifetimeTotalUntilSale(pmt) == pmt * refi_payments_until_sale
RefiLifetimeTotal(pmt) == pmt * RefiTerm

\* The two tests of the loop body (lines 110 and 120), without the latch.
LifetimeBeneficial(refi_lifetime, orig_remaining) ==
    refi_lifetime < orig_remaining

SaleBeneficial(cost_refi, cost_orig) == cost_refi < cost_orig

\* The latch without `and tipping_rate is None`: every qualifying rate
\* overwrites the one before.
LatchOverwrite(tipping_rate, test, rate) ==
    IF test THEN rate ELSE tipping_rate

\* `if <test> and tipping_rate is None: tipping_rate = r_new`
Latch(tipping_rate, test, rate) ==
    IF test /\ tipping_rate = None THEN rate ELSE tipping_rate

\* The fallback to the floor of the scan instead of the original rate.
FallbackToFloor(tipping_rate, original_rate) ==
    IF tipping_rate = None THEN Floor ELSE tipping_rate

\* `if tipping_rate is None: tipping_rate = original_rate`
Fallback(tipping_rate, original_rate) ==
    IF tipping_rate = None THEN original_rate ELSE tipping_rate

\* ------------------------------------------------- the comparison table

\* round(x, 3): to the nearest multiple of 0.001 (no rate of the model is
\* half way between two).
Round3(x) == Step * ((x + Step \div 2) \div Step)

SetMax(S) == CHOOSE m \in S : \A x \in S : x <= m

\* sorted(list(set(...)), reverse=True)
RECURSIVE SortedReverse(_)
SortedReverse(S) ==
    IF S = {} THEN <<>>
    ELSE <<SetMax(S)>> \o SortedReverse(S \ {SetMax(S)})

\* 0.075 and 0.25 percentage points, in rate units.
Above == (75 * RateScale) \div 1000
Below == (25 * RateScale) \div 100

\* table_rates without the filter of line 135.
TableRatesUnfiltered(tipping_sale, tipping_lifetime, original_rate) ==
    SortedReverse({ Round3(tipping_sale + Above),
                    Round3(tipping_sale),
                    Round3(tipping_sale - Below),
                    Round3(tipping_lifetime),
                    Round3(tipping_lifetime - Below) })

\* table_rates (lines 128-136).
TableRates(tipping_sale, tipping_lifetime, original_rate) ==
    LET rounded == { Round3(tipping_sale + Above),
                     Round3(tipping_sale),
                     Round3(tipping_sale - Below),
                     Round3(tipping_lifetime),
                     Round3(tipping_lifetime - Below) }
    IN  SortedReverse({ r \in rounded : r < original_rate })

\* closing_cost_pct is a number of CostScale-ths.
CostScale == Split

\* floor(x * c / CostScale): remaining_principal * closing_cost_pct.
MulCost(x, c) == (x \div Split) * c + ((x % Split) * c) \div Split

\* ---------------------------------------------------------- the inputs

MaxPaid == 26                  \* payments made, for the horizon alone
MaxYearsAhead == 10            \* sale years after the reference year, for the horizon alone

Amounts == {697000 * MoneyScale}
Rates == {0, Floor, 3 * RateScale, 3 * RateScale + 16, 3 * RateScale + 30 * Step}
Terms == {24, 360, 480}
Paids == {0, 4}
Sales == {<<2025, 10>>, <<2025, 11>>, <<2026, 10>>, <<2028, 3>>}
Costs == {0, 10, 200}

Args(amount, rate, term, paid, sale, costs_pct) ==
    [amount |-> amount, rate |-> rate, term |-> term, paid |-> paid,
     sell_year |-> sale[1], sell_month |-> sale[2], costs_pct |-> costs_pct]

\* A scan of 1012 rates, from 4.001.
LongScanArgs == Args(697000 * MoneyScale, 4 * RateScale + Step, 360, 4,
                     <<2028, 3>>, 20)

AnalysisArgs ==
    { Args(a, r, t, p, s, c) :
        a \in Amounts, r \in Rates, t \in Terms, p \in Paids,
        s \in Sales, c \in Costs } \cup {LongScanArgs}

HorizonArgs ==
    { Args(697000 * MoneyScale, Floor, 360, p, <<y, m>>, 200) :
        p \in 0..MaxPaid,
        y \in (CURRENT_YEAR - 1)..(CURRENT_YEAR + MaxYearsAhead),
        m \in 1..12 }

Idle ==
    /\ pc = "start"
    /\ out = <<>>
    /\ months_until_sale = None
    /\ first_pmt_date_str = <<>>
    /\ remaining_principal = None
    /\ pmt_orig = None
    /\ closing_costs = None
    /\ cost_refi_loan_amt = None
    /\ refi_payments_until_sale = None
    /\ total_cost_orig_at_sale = None
    /\ tipping_rate_sale = None
    /\ tipping_rate_lifetime = None
    /\ scanned = 0
    /\ r_new = None
    /\ pmt_refi = None
    /\ total_payments_refi_lifetime = None
    /\ total_cost_refi_at_sale = None
    /\ table_data = <<>>
    /\ status_calls = {}
    /\ hits_sale = {}
    /\ hits_lifetime = {}

Init == args \in AnalysisArgs /\ Idle

InitHorizon == args \in HorizonArgs /\ Idle

\* ------------------------------------------------------- run_analysis

Horizon == calculate_total_payments_until_sale(args.paid, args.sell_year,
                                               args.sell_month)

\* The except branch, had the original loan's status been computed before
\* the horizon is checked.
HorizonErrorAfterStatus ==
    /\ pc = "start"
    /\ ~Horizon.ok
    /\ LET status == get_loan_status(args.amount, args.rate, args.term, args.paid)
       IN  /\ remaining_principal' = status[1]
           /\ pmt_orig' = status[2]
           /\ status_calls' = status_calls \cup {<<args.term, args.paid>>}
    /\ out' = Append(out, "Error in calculating sale period")
    /\ pc' = "exit"
    /\ UNCHANGED <<args, months_until_sale, first_pmt_date_str, closing_costs,
                   cost_refi_loan_amt, refi_payments_until_sale,
                   total_cost_orig_at_sale, search, table_data>>

\* Lines 73-79, the except branch: the horizon is invalid, the error is
\* printed and the process exits.
HorizonError ==
    /\ pc = "start"
    /\ ~Horizon.ok
    /\ out' = Append(out, "Error in calculating sale period")
    /\ pc' = "exit"
    /\ UNCHANGED <<args, benchmark, search, table_data, status_calls>>

\* Lines 73-101: the horizon is valid; the original loan's status, the
\* benchmark at sale, and the start of the search.
Benchmark ==
    /\ pc = "start"
    /\ Horizon.ok
    /\ LET status == get_loan_status(args.amount, args.rate, args.term, args.paid)
           costs == MulCost(status[1], args.costs_pct)
           at_sale == get_loan_status(args.amount, args.rate, args.term,
                                      Horizon.total_months)
           total_payments_orig_at_sale == status[2] * Horizon.total_months
       IN  /\ months_until_sale' = Horizon.total_months
           /\ first_pmt_date_str' = Horizon.first_payment
           /\ remaining_principal' = status[1]
           /\ pmt_orig' = status[2]
           /\ closing_costs' = costs
           /\ cost_refi_loan_amt' = status[1] + costs
           /\ refi_payments_until_sale' = Horizon.total_months - args.paid
           /\ total_cost_orig_at_sale' = total_payments_orig_at_sale + at_sale[1]
           /\ status_calls' = status_calls \cup
                  {<<args.term, args.paid>>, <<args.term, Horizon.total_months>>}
    /\ tipping_rate_sale' = None
    /\ tipping_rate_lifetime' = None
    /\ scanned' = 0
    /\ pc' = "scan"
    /\ UNCHANGED <<args, out, r_new, pmt_refi, total_payments_refi_lifetime,
                   total_cost_refi_at_sale, hits_sale, hits_lifetime, table_data>>

\* Lines 103-121: one turn of the loop, on the next rate of search_rates.
ScanStep ==
    /\ pc = "scan"
    /\ scanned < ArangeLen(args.rate)
    /\ LET rate == SearchRate(args.rate, scanned)
           pmt == calculate_pmt(cost_refi_loan_amt, rate, RefiTerm)
           total_payments_orig_remaining == pmt_orig * (args.term - args.paid)
           refi_lifetime == RefiLifetimeTotal(pmt)
           at_sale == get_loan_status(cost_refi_loan_amt, rate, RefiTerm,
                                      refi_payments_until_sale)
           total_payments_refi_at_sale ==
               (pmt_orig * args.paid) + (pmt * refi_payments_until_sale)
           cost_refi == total_payments_refi_at_sale + at_sale[1]
           lifetime_test == LifetimeBeneficial(refi_lifetime,
                                               total_payments_orig_remaining)
           sale_test == SaleBeneficial(cost_refi, total_cost_orig_at_sale)
       IN  /\ r_new' = rate
           /\ pmt_refi' = pmt
           /\ total_payments_refi_lifetime' = refi_lifetime
           /\ total_cost_refi_at_sale' = cost_refi
           /\ tipping_rate_lifetime' = Latch(tipping_rate_lifetime, lifetime_test, rate)
           /\ tipping_rate_sale' = Latch(tipping_rate_sale, sale_test, rate)
           /\ hits_lifetime' = IF lifetime_test THEN hits_lifetime \cup {rate}
                                                ELSE hits_lifetime
           /\ hits_sale' = IF sale_test THEN hits_sale \cup {rate} ELSE hits_sale
    /\ status_calls' = status_calls \cup {<<RefiTerm, refi_payments_until_sale>>}
    /\ scanned' = scanned + 1
    /\ UNCHANGED <<args, pc, out, benchmark, table_data>>

\* One row of table_data (lines 141-159) for the rate `rate`.
TableRow(rate) ==
    LET pmt == calculate_pmt(cost_refi_loan_amt, rate, RefiTerm)
        at_sale == get_loan_status(cost_refi_loan_amt, rate, RefiTerm,
                                   refi_payments_until_sale)
        total_payments_refi_at_sale ==
            (pmt_orig * args.paid) + (pmt * refi_payments_until_sale)
        total_payments_orig_remaining == pmt_orig * (args.term - args.paid)
    IN  [rate |-> rate,
         monthly_savings |-> pmt_orig - pmt,
         savings_at_sale |-> total_cost_orig_at_sale
                             - (total_payments_refi_at_sale + at_sale[1]),
         savings_lifetime |-> total_payments_orig_remaining
                              - RefiLifetimeTotal(pmt)]

\* Lines 123-159: the loop is over; the fallbacks, then the table.
BuildTable ==
    /\ pc = "scan"
    /\ scanned >= ArangeLen(args.rate)
    /\ LET sale == Fallback(tipping_rate_sale, args.rate)
           lifetime == Fallback(tipping_rate_lifetime, args.rate)
           table_rates == TableRates(sale, lifetime, args.rate)
       IN  /\ tipping_rate_sale' = sale
           /\ tipping_rate_lifetime' = lifetime
           /\ table_data' = [i \in 1..Len(table_rates) |-> TableRow(table_rates[i])]
           /\ status_calls' = status_calls \cup
                  (IF table_rates = <<>> THEN {}
                   ELSE {<<RefiTerm, refi_payments_until_sale>>})
    /\ pc' = "print"
    /\ UNCHANGED <<args, out, benchmark, scanned, r_new, pmt_refi,
                   total_payments_refi_lifetime, total_cost_refi_at_sale,
                   hits_sale, hits_lifetime>>

\* Lines 161-194: the three tables are printed.
PrintResults ==
    /\ pc = "print"
    /\ out' = out \o <<"Input Parameters", "Critical Tipping Points",
                       "Refinance Comparison Table">>
    /\ pc' = "done"
    /\ UNCHANGED <<args, benchmark, search, table_data, status_calls>>

Next == HorizonError \/ Benchmark \/ ScanStep \/ BuildTable \/ PrintResults

Spec == Init /\ [][Next]_vars

\* ------------------------------- the horizon function on its own inputs

\* calculate_total_payments_until_sale applied to the arguments, its result
\* recorded: the call of lines 74-76, and nothing after it.
HorizonReturns ==
    /\ pc = "start"
    /\ Horizon.ok
    /\ months_until_sale' = Horizon.total_months
    /\ first_pmt_date_str' = Horizon.first_payment
    /\ refi_payments_until_sale' = Horizon.total_months - args.paid
    /\ pc' = "returned"
    /\ UNCHANGED <<args, out, remaining_principal, pmt_orig, closing_costs,
                   cost_refi_loan_amt, total_cost_orig_at_sale, search,
                   table_data, status_calls>>

NextHorizon == HorizonError \/ HorizonReturns

SpecHorizon == InitHorizon /\ [][NextHorizon]_vars

\* ------------------------------------------------------------ properties

Finished == pc \in {"print", "done"}

\* `tip` is the highest rate of `hits`, the rates at which a horizon's test
\* held so far; none when there is no such rate.
HighestHit(tip, hits) ==
    IF hits = {} THEN tip = None
    ELSE tip \in hits /\ \A h \in hits : h <= tip

\* C1: for each horizon, the tipping rate recorded by the descending scan is
\* the first (highest) scanned rate at which the horizon's test holds: no
\* rate scanned before it passes the test, and once a tipping rate is
\* recorded no later rate of the scan changes it, whether it passes or not.
C1_FirstQualifyingRateLatched ==
    /\ [](pc = "scan" => /\ HighestHit(tipping_rate_sale, hits_sale)
                         /\ HighestHit(tipping_rate_lifetime, hits_lifetime))
    /\ [][/\ tipping_rate_sale # None => tipping_rate_sale' = tipping_rate_sale
          /\ tipping_rate_lifetime # None
                 => tipping_rate_lifetime' = tipping_rate_lifetime]_vars

\* Both latches are set, and the scan has since taken a lower rate that
\* passes both tests too.
C1_Witness ==
    /\ pc = "scan"
    /\ tipping_rate_sale # None /\ tipping_rate_lifetime # None
    /\ r_new < tipping_rate_sale /\ r_new < tipping_rate_lifetime
    /\ r_new \in hits_sale /\ r_new \in hits_lifetime

\* The sale month is before the reference month (Nov 2025).
SalePrecedesReference ==
    \/ args.sell_year < CURRENT_YEAR
    \/ args.sell_year = CURRENT_YEAR /\ args.sell_month < CURRENT_MONTH

\* C2: calculate_total_payments_until_sale fails exactly when the sale month
\* precedes the reference month; when it returns, monthsUntilSale is at
\* least paymentsMadeSoFar and refinancePaymentsUntilSale is not negative.
C2_ErrorIffSalePrecedesReference ==
    /\ pc = "start" => /\ ENABLED HorizonError <=> SalePrecedesReference
                       /\ ENABLED HorizonReturns <=> ~SalePrecedesReference
    /\ pc = "exit" => SalePrecedesReference /\ months_until_sale = None
    /\ pc = "returned" => /\ ~SalePrecedesReference
                          /\ months_until_sale >= args.paid
                          /\ refi_payments_until_sale >= 0
                          /\ refi_payments_until_sale
                                 = months_until_sale - args.paid

\* The error, for a sale one month before the reference month and a first
\* payment in an earlier year.
C2_Witness ==
    /\ pc = "exit"
    /\ args.sell_year = CURRENT_YEAR /\ args.sell_month = CURRENT_MONTH - 1
    /\ args.paid = 14

\* C3: when the horizon is invalid the analysis ends in a terminal error
\* state with no partial output: the error message is all that is printed,
\* no loan status is computed, no rate scanned, no tipping rate or table row
\* produced; and the result tables are printed only by a run that printed
\* no error.
C3_ErrorBeforeAnyOutput ==
    /\ pc = "exit" =>
          /\ out = <<"Error in calculating sale period">>
          /\ status_calls = {}
          /\ remaining_principal = None /\ pmt_orig = None
          /\ cost_refi_loan_amt = None /\ total_cost_orig_at_sale = None
          /\ scanned = 0 /\ r_new = None
          /\ tipping_rate_sale = None /\ tipping_rate_lifetime = None
          /\ table_data = <<>>
          /\ ~ENABLED Next
    /\ pc \notin {"exit", "done"} => out = <<>>
    /\ pc = "done" => out = <<"Input Parameters", "Critical Tipping Points",
                              "Refinance Comparison Table">>

C3_Witness == pc = "exit" /\ Len(out) = 1

\* C4: a horizon whose test holds at no rate of the scanned range (the empty
\* range of an original rate at or below the floor included) ends with the
\* original rate as its tipping rate, whatever the other horizon found.
C4_FallbackToOriginalRate ==
    Finished =>
        /\ hits_sale = {} => tipping_rate_sale = args.rate
        /\ hits_lifetime = {} => tipping_rate_lifetime = args.rate

\* The sale horizon falls back after a scan in which the lifetime horizon
\* found a rate below the original one.
C4_Witness ==
    /\ pc = "done"
    /\ scanned > 0
    /\ hits_sale = {} /\ tipping_rate_sale = args.rate
    /\ hits_lifetime # {} /\ tipping_rate_lifetime < args.rate

\* C5: every row of the comparison table has a rate strictly below the
\* original rate, the rows are strictly descending by rate (so no rate is
\* listed twice), there are at most 5 of them, and each rate is one of
\* tippingSale + 0.075, tippingSale, tippingSale - 0.25, tippingLifetime,
\* tippingLifetime - 0.25, rounded to 3 decimals.
C5_TableShape ==
    Finished =>
        /\ Len(table_data) <= 5
        /\ \A i \in 1..Len(table_data) :
              /\ table_data[i].rate < args.rate
              /\ table_data[i].rate \in
                     { Round3(tipping_rate_sale + Above),
                       Round3(tipping_rate_sale),
                       Round3(tipping_rate_sale - Below),
                       Round3(tipping_rate_lifetime),
                       Round3(tipping_rate_lifetime - Below) }
              /\ i > 1 => table_data[i - 1].rate > table_data[i].rate

\* A table of five rows.
C5_Witness == pc = "done" /\ Len(table_data) = 5

\* C6: at the end of an analysis each tipping rate is below the original
\* rate and not below the floor 2.99, or is the original rate; the scan
\* takes its rates in descending order from the original rate, 0.001 apart,
\* and never takes a rate at or below the floor.
C6_ScanStaysAboveFloor ==
    /\ Finished =>
          /\ \/ tipping_rate_sale = args.rate
             \/ tipping_rate_sale < args.rate /\ tipping_rate_sale >= Floor
          /\ \/ tipping_rate_lifetime = args.rate
             \/ tipping_rate_lifetime < args.rate /\ tipping_rate_lifetime >= Floor
    /\ scanned > 0 =>
          /\ r_new - (args.rate - (scanned - 1) * Step) \in {-1, 0, 1}
          /\ r_new > Floor

\* One month before ym = <<year, month>>, and one month after.
PrevMonth(ym) == IF ym[2] = 1 THEN <<ym[1] - 1, 12>> ELSE <<ym[1], ym[2] - 1>>
NextMonth(ym) == IF ym[2] = 12 THEN <<ym[1] + 1, 1>> ELSE <<ym[1], ym[2] + 1>>

\* ym moved k months back, month by month (forward for k < 0).
RECURSIVE MonthsBack(_, _)
MonthsBack(ym, k) ==
    IF k = 0 THEN ym
    ELSE IF k > 0 THEN MonthsBack(PrevMonth(ym), k - 1)
    ELSE MonthsBack(NextMonth(ym), k + 1)

NotAfter(a, b) == a[1] < b[1] \/ (a[1] = b[1] /\ a[2] <= b[2])

\* The number of calendar months from `first` through `last`, both counted.
InclusiveMonths(first, last) ==
    Cardinality({ ym \in ((CURRENT_YEAR - MaxPaid \div 12 - 2)
                          ..(CURRENT_YEAR + MaxYearsAhead + 1)) \X (1..12) :
                    NotAfter(first, ym) /\ NotAfter(ym, last) })

\* C7: for paymentsMadeSoFar >= 0 and a sale month not before the reference
\* month, monthsUntilSale is the inclusive count of calendar months from
\* the first-payment month (the reference month stepped back
\* paymentsMadeSoFar - 1 months) through the sale month, which is
\* paymentsMadeSoFar plus the months from Nov 2025 to the sale month; for
\* paid = 4 and a sale in 2035-07 it is 120, the first payment Aug 2025.
C7_InclusiveMonthCount ==
    pc = "returned" =>
        LET reference == <<CURRENT_YEAR, CURRENT_MONTH>>
            sale == <<args.sell_year, args.sell_month>>
        IN  /\ first_pmt_date_str = MonthsBack(reference, args.paid - 1)
            /\ months_until_sale = InclusiveMonths(first_pmt_date_str, sale)
            /\ months_until_sale
                   = args.paid + InclusiveMonths(reference, sale) - 1
            /\ args.paid = 4 /\ sale = <<2035, 7>>
                   => months_until_sale = 120 /\ first_pmt_date_str = <<2025, 8>>

C7_Witness ==
    /\ pc = "returned"
    /\ args.paid = 4 /\ args.sell_year = 2035 /\ args.sell_month = 7
    /\ months_until_sale = 120

\* C8: every call of get_loan_status made by an analysis that passed the
\* horizon check has 0 <= payments_made <= total_months.
C8_EnginePreconditionKept ==
    \A call \in status_calls : 0 <= call[2] /\ call[2] <= call[1]

\* C9: when the original rate is a multiple of the 0.001 step, every row of
\* the comparison table whose rate is above a horizon's tipping rate has
\* non-positive savings for that horizon.
C9_NoSavingsAboveTippingRate ==
    Finished /\ args.rate % Step = 0 =>
        \A i \in 1..Len(table_data) :
            /\ table_data[i].rate > tipping_rate_sale
                   => table_data[i].savings_at_sale <= 0
            /\ table_data[i].rate > tipping_rate_lifetime
                   => table_data[i].savings_lifetime <= 0

\* The lifetime tipping rate as a function of the amount, the rate, the
\* term, the payments made and the closing-cost percent alone: the highest
\* rate of the scanned range at which 360 refinanced payments cost less than
\* the original loan's remaining payments, else the original rate.
LifetimeTippingRate(amount, rate, term, paid, costs_pct) ==
    LET status == get_loan_status(amount, rate, term, paid)
        principal == status[1] + MulCost(status[1], costs_pct)
        remaining == status[2] * (term - paid)
        good == { c \in { SearchRate(rate, i) : i \in 0..(ArangeLen(rate) - 1) } :
                    calculate_pmt(principal, c, RefiTerm) * RefiTerm < remaining }
    IN  IF good = {} THEN rate
        ELSE CHOOSE c \in good : \A d \in good : d <= c

\* C10: the lifetime tipping rate does not depend on the sale horizon: it is
\* the same for every valid sale year and month, the other arguments being
\* equal; and a turn of the scan that sets one latch sets the other only if
\* the other's own test holds at that rate.
C10_LifetimeIndependentOfSale ==
    /\ [](Finished => tipping_rate_lifetime
                          = LifetimeTippingRate(args.amount, args.rate, args.term,
                                                args.paid, args.costs_pct))
    /\ [][pc = "scan" /\ pc' = "scan" =>
            /\ tipping_rate_lifetime' # tipping_rate_lifetime
                   => r_new' \in hits_lifetime'
            /\ tipping_rate_sale' # tipping_rate_sale
                   => r_new' \in hits_sale'
            /\ r_new' \notin hits_lifetime'
                   => tipping_rate_lifetime' = tipping_rate_lifetime
            /\ r_new' \notin hits_sale'
                   => tipping_rate_sale' = tipping_rate_sale]_vars

\* An analysis whose horizons found different rates, the lifetime horizon's
\* below the original rate.
C10_Witness ==
    /\ pc = "done"
    /\ hits_lifetime # {} /\ hits_sale # {}
    /\ tipping_rate_lifetime < args.rate
    /\ tipping_rate_lifetime # tipping_rate_sale

====
